---- MODULE Spec2Model ----
(***************************************************************************)
(* CreateLambda.py: a script that creates three CloudFormation stacks      *)
(* (BootstrapS3Bucket, LambdaS3Bucket, LambdaFunction) or, with -d,        *)
(* empties the two buckets and deletes the three stacks.                   *)
(*                                                                         *)
(* The model holds the provider's state (the three stacks, the two         *)
(* buckets) and the script's control state.  One action stands for one     *)
(* request the script sends (or one status poll of a waiter) together with *)
(* all the local code that runs up to the next request.  The provider      *)
(* finishes or fails stack operations in steps of its own, interleaved     *)
(* with the script's polls.  Runs follow each other: a run starts when the *)
(* previous one has exited, on whatever the earlier runs left behind.      *)
(***************************************************************************)
EXTENDS FiniteSets, Integers, Sequences, TLC

(***************************************************************************)
(* Bounds of the model.                                                    *)
(***************************************************************************)
\* number of runs of the script in one behaviour
MaxRuns == 3
\* number of out-of-band writes into a bucket in one behaviour
MaxPuts == 1

(***************************************************************************)
(* Program constants.                                                      *)
(***************************************************************************)
CF_STACKNAME_LAMBDA == "LambdaFunction"
CF_STACKNAME_LAMBDA_S3 == "LambdaS3Bucket"
CF_STACKNAME_BOOTSTRAP_S3 == "BootstrapS3Bucket"
CF_LAMBDA_S3_BUCKET_NAME == "generic-lambda-functions-01234"
CF_BOOTSTRAP_S3_BUCKET_NAME == "generic-bootstrap-bucket-01234"
CF_LAMBDA_SOURCE == "test.zip"
CF_TEMPLATE_S3 == "CreateS3Bucket.yaml"
CF_TEMPLATE_LAMBDA == "CreateLambdaFunction.yaml"

\* WaiterConfig MaxAttempts of the storage stacks' waits (also the default
\* wait_max_attempts of delete_cf_stack)
StorageMaxAttempts == 12
\* WaiterConfig MaxAttempts of the LambdaFunction stack's waits
LambdaMaxAttempts == 24
\* list_objects_v2 is called once, without MaxKeys and without following
\* the continuation token: one call returns at most this many keys
ListMaxKeys == 1000

Stacks == {CF_STACKNAME_BOOTSTRAP_S3, CF_STACKNAME_LAMBDA_S3, CF_STACKNAME_LAMBDA}
Buckets == {CF_BOOTSTRAP_S3_BUCKET_NAME, CF_LAMBDA_S3_BUCKET_NAME}
Keys == {CF_TEMPLATE_S3, CF_TEMPLATE_LAMBDA, CF_LAMBDA_SOURCE}
Funcs == {"create_s3_bucket", "create_lambda", "delete_cf_stack",
          "delete_cloudformation_stacks"}

StackStates == {"absent", "creating", "created", "create_failed",
                "deleting", "deleted", "delete_failed"}

\* the stack whose template declares the bucket
BucketStack(b) ==
    IF b = CF_BOOTSTRAP_S3_BUCKET_NAME THEN CF_STACKNAME_BOOTSTRAP_S3
    ELSE CF_STACKNAME_LAMBDA_S3

\* the bucket a stack's template declares ("" for the LambdaFunction stack)
StackBucket(s) ==
    IF s = CF_STACKNAME_BOOTSTRAP_S3 THEN CF_BOOTSTRAP_S3_BUCKET_NAME
    ELSE IF s = CF_STACKNAME_LAMBDA_S3 THEN CF_LAMBDA_S3_BUCKET_NAME
    ELSE ""

VARIABLES
    stack,       \* provider: lifecycle state of each stack
    bucket,      \* provider: [exists, keys, extra] of each bucket
    puts,        \* number of out-of-band writes so far
    runs,        \* number of runs started so far
    mode,        \* "create" or "delete" (args.delete) of the current run
    pc,          \* the request the script sends next
    attempts,    \* num_attempts of the waiter in progress
    stack_name,  \* argument of the delete_cf_stack call in progress
    objects,     \* result of the last list_objects_v2
    issued,      \* requests of the current run, in order, with their outcomes
    res,         \* how each function's last call in this run ended
    exc,         \* the exception that ended the run ("none" if none)
    exitStatus,  \* how the process of the current run ended
    parked       \* the program state of a second process of the script that
                 \* is not taking the current step (pc "off": there is none)

vars == <<stack, bucket, puts, runs, mode, pc, attempts, stack_name, objects,
          issued, res, exc, exitStatus, parked>>

provider == <<stack, bucket>>
program == <<runs, mode, pc, attempts, stack_name, objects, issued, res, exc,
             exitStatus>>

EmptyBucket == [exists |-> FALSE, keys |-> {}, extra |-> 0]
NoObjects == [keys |-> {}, extra |-> 0]
NoResult == [f \in Funcs |-> "none"]

Request(op, target, key, outcome) ==
    [op |-> op, target |-> target, key |-> key, outcome |-> outcome]

\* the program state of a process: not started, and just started in create
\* mode
Process(p) ==
    [runs |-> IF p = "off" THEN 0 ELSE 1, mode |-> IF p = "off" THEN "none" ELSE "create",
     pc |-> p, attempts |-> 0, stack_name |-> "", objects |-> NoObjects,
     issued |-> <<>>, res |-> NoResult, exc |-> "none",
     exitStatus |-> IF p = "off" THEN "none" ELSE "running"]

Init ==
    /\ parked = Process("off")
    /\ stack = [s \in Stacks |-> "absent"]
    /\ bucket = [b \in Buckets |-> EmptyBucket]
    /\ puts = 0
    /\ runs = 0
    /\ mode = "none"
    /\ pc = "idle"
    /\ attempts = 0
    /\ stack_name = ""
    /\ objects = NoObjects
    /\ issued = <<>>
    /\ res = NoResult
    /\ exc = "none"
    /\ exitStatus = "none"

(***************************************************************************)
(* The provider.                                                           *)
(***************************************************************************)
StackExists(s) == stack[s] \notin {"absent", "deleted"}

KeyCount(b) == Cardinality(bucket[b].keys) + bucket[b].extra

\* CloudFormation finishes the creation of a stack; a storage stack's bucket
\* now exists and is empty
ProviderCreateComplete(s) ==
    /\ stack[s] = "creating"
    /\ stack' = [stack EXCEPT ![s] = "created"]
    /\ bucket' = IF StackBucket(s) = "" THEN bucket
                 ELSE [bucket EXCEPT ![StackBucket(s)] =
                          [exists |-> TRUE, keys |-> {}, extra |-> 0]]
    /\ UNCHANGED <<puts, parked, program>>

\* CloudFormation gives up the creation of a stack (and rolls it back)
ProviderCreateFailed(s) ==
    /\ stack[s] = "creating"
    /\ stack' = [stack EXCEPT ![s] = "create_failed"]
    /\ UNCHANGED <<bucket, puts, parked, program>>

\* CloudFormation finishes the deletion of a stack; it cannot delete a
\* bucket that holds objects
ProviderDeleteComplete(s) ==
    /\ stack[s] = "deleting"
    /\ StackBucket(s) # "" => KeyCount(StackBucket(s)) = 0
    /\ stack' = [stack EXCEPT ![s] = "deleted"]
    /\ bucket' = IF StackBucket(s) = "" THEN bucket
                 ELSE [bucket EXCEPT ![StackBucket(s)] = EmptyBucket]
    /\ UNCHANGED <<puts, parked, program>>

\* CloudFormation fails to delete a stack (always so for a non-empty bucket)
ProviderDeleteFailed(s) ==
    /\ stack[s] = "deleting"
    /\ stack' = [stack EXCEPT ![s] = "delete_failed"]
    /\ UNCHANGED <<bucket, puts, parked, program>>

\* someone else writes n objects into an existing bucket, between two runs
PutObjects(b, n) ==
    /\ pc \in {"idle", "done"}
    /\ puts < MaxPuts
    /\ bucket[b].exists
    /\ bucket' = [bucket EXCEPT ![b].extra = @ + n]
    /\ puts' = puts + 1
    /\ UNCHANGED <<stack, program, parked>>

(***************************************************************************)
(* How a call and a run of the script end.                                 *)
(***************************************************************************)
\* print('ERROR: ' + x): str + str prints; str + an exception object raises
\* TypeError, inside the except clause, and nothing catches it
PrintError(operand) ==
    IF operand = "str" THEN "printed" ELSE "TypeError"

\* Seeded fault: the AlreadyExistsException branch prints the exception
\* object, like the other branch
ClientErrorHandlerPrintingException(code) ==
    LET printed == PrintError("ClientError")
    IN  IF printed = "printed" THEN "-1" ELSE printed

\* except ClientError of the three create_stack calls
ClientErrorHandler(code) ==
    LET printed == IF code = "AlreadyExistsException"
                   THEN PrintError("str")
                   ELSE PrintError("ClientError")
    IN  IF printed = "printed" THEN "-1" ELSE printed

\* except WaiterError of the three create waits
WaiterErrorHandler ==
    LET printed == PrintError("WaiterError")
    IN  IF printed = "printed" THEN "-1" ELSE printed

\* except ClientError of the three upload_file calls: any other exception
\* type is not caught and leaves the function as it is
UploadErrorHandler(raised) ==
    IF raised = "ClientError"
    THEN LET printed == PrintError("ClientError")
         IN  IF printed = "printed" THEN "-1" ELSE printed
    ELSE raised

\* except WaiterError of delete_cf_stack
DeleteWaiterErrorHandler(verbose) ==
    IF verbose
    THEN LET printed == PrintError("WaiterError")
         IN  IF printed = "printed" THEN "-1" ELSE printed
    ELSE "-1"

\* an exception leaves the functions fs and the script: traceback, status 1
Raise(fs, e) ==
    /\ pc' = "done"
    /\ exc' = e
    /\ exitStatus' = "traceback"
    /\ res' = [f \in Funcs |-> IF f \in fs THEN "raised" ELSE res[f]]

\* the functions fs return -1 and the entry point calls exit(-1)
ReturnFailure(fs) ==
    /\ pc' = "done"
    /\ exc' = exc
    /\ exitStatus' = "exit(-1)"
    /\ res' = [f \in Funcs |-> IF f \in fs THEN "-1" ELSE res[f]]

\* what a handler came to: "-1" (it returned -1) or the exception it let out
Fail(fs, h) ==
    IF h = "-1" THEN ReturnFailure(fs) ELSE Raise(fs, h)

(***************************************************************************)
(* The provider's answers.                                                 *)
(***************************************************************************)
\* create_stack(StackName=s, template in bucket b under key k, or inline
\* when b = ""); ok: the provider has no other reason to reject it
CreateStackResponse(s, b, k, ok) ==
    IF StackExists(s) THEN "AlreadyExistsException"
    ELSE IF b # "" /\ ~(bucket[b].exists /\ k \in bucket[b].keys)
    THEN "ValidationError"
    ELSE IF ok THEN "accepted" ELSE "AccessDenied"

\* Seeded fault: the create waits ask for the stack_exists waiter, which
\* succeeds as soon as the stack can be described
StackExistsAcceptor(st) ==
    IF st \in {"absent", "deleted"} THEN "retry" ELSE "success"

\* acceptors of the stack_create_complete waiter on one status poll
CreateWaitAcceptor(st) ==
    IF st = "created" THEN "success"
    ELSE IF st \in {"creating", "deleting"} THEN "retry"
    ELSE "failure"

\* Seeded fault: delete_cf_stack asks for the stack_create_complete waiter
WrongWaiterAcceptor(st) == CreateWaitAcceptor(st)

\* acceptors of the stack_delete_complete waiter on one status poll
DeleteWaitAcceptor(st) ==
    IF st \in {"deleted", "absent"} THEN "success"
    ELSE IF st \in {"delete_failed", "create_failed"} THEN "failure"
    ELSE "retry"

\* Seeded fault: the waiter gives up one poll late
WaiterPollOneMore(accepted, n, max) ==
    IF accepted = "success" THEN "success"
    ELSE IF accepted = "failure" THEN "terminal"
    ELSE IF n + 1 > max THEN "timeout"
    ELSE "retry"

\* one turn of waiter.wait: the poll is attempt number n + 1 of max
WaiterPoll(accepted, n, max) ==
    IF accepted = "success" THEN "success"
    ELSE IF accepted = "failure" THEN "terminal"
    ELSE IF n + 1 >= max THEN "timeout"
    ELSE "retry"

\* upload_file(file, b, key); fault: what the environment does to this call
UploadResponse(b, fault) ==
    IF fault = "file_missing" THEN "file_missing"
    ELSE IF ~bucket[b].exists THEN "bucket_missing"
    ELSE IF fault = "denied" THEN "denied"
    ELSE "ok"

\* the exception upload_file raises: the missing file is an OSError; an
\* error answer of S3 comes out as S3UploadFailedError or, from a library
\* that does not wrap it, as ClientError (wrapped)
UploadException(outcome, wrapped) ==
    IF outcome = "file_missing" THEN "FileNotFoundError"
    ELSE IF wrapped THEN "S3UploadFailedError" ELSE "ClientError"

UploadFaults == {"none", "file_missing", "denied"}

\* the pages list_objects_v2 can return for bucket b: all of it, or
\* ListMaxKeys of its objects when it holds more
ListPages(b) ==
    LET n == IF KeyCount(b) > ListMaxKeys THEN ListMaxKeys ELSE KeyCount(b)
    IN  {[keys |-> K, extra |-> n - Cardinality(K)] :
            K \in {S \in SUBSET bucket[b].keys :
                      n - Cardinality(S) \in 0..bucket[b].extra}}

\* delete_stack(StackName=s): nothing happens to a stack that does not exist
DeleteStackEffect(st) ==
    IF st \in {"absent", "deleted"} THEN st ELSE "deleting"

(***************************************************************************)
(* The entry point.                                                        *)
(***************************************************************************)
\* the script is started, with (-d) or without the delete argument
StartRun(m) ==
    /\ pc \in {"idle", "done"}
    /\ runs < MaxRuns
    /\ runs' = runs + 1
    /\ mode' = m
    /\ pc' = IF m = "delete" THEN "dcs_list_bootstrap" ELSE "cs3_create_bootstrap"
    /\ attempts' = 0
    /\ stack_name' = ""
    /\ objects' = NoObjects
    /\ issued' = <<>>
    /\ res' = NoResult
    /\ exc' = "none"
    /\ exitStatus' = "running"
    /\ UNCHANGED <<stack, bucket, puts, parked>>

(***************************************************************************)
(* Building blocks of the create path: each sends one request at one place *)
(* of the code and runs the code that follows up to the next request.      *)
(***************************************************************************)
\* Seeded fault: the except clause takes AlreadyExistsException as "the
\* stack is there" and goes on to the wait
CreateStackIgnoringExists(f, s, b, k, ok, next) ==
    LET r == CreateStackResponse(s, b, k, ok)
    IN  /\ issued' = Append(issued, Request("create_stack", s, k, r))
        /\ IF r \in {"accepted", "AlreadyExistsException"}
           THEN /\ stack' = IF r = "accepted" THEN [stack EXCEPT ![s] = "creating"]
                            ELSE stack
                /\ pc' = next
                /\ attempts' = 0
                /\ UNCHANGED <<res, exc, exitStatus>>
           ELSE /\ Fail({f}, ClientErrorHandler(r))
                /\ UNCHANGED <<stack, attempts>>
        /\ UNCHANGED <<bucket, puts, parked, runs, mode, stack_name, objects>>

\* cf.create_stack for stack s inside function f, then its except clause
CreateStack(f, s, b, k, ok, next) ==
    LET r == CreateStackResponse(s, b, k, ok)
    IN  /\ issued' = Append(issued, Request("create_stack", s, k, r))
        /\ IF r = "accepted"
           THEN /\ stack' = [stack EXCEPT ![s] = "creating"]
                /\ pc' = next
                /\ attempts' = 0
                /\ UNCHANGED <<res, exc, exitStatus>>
           ELSE /\ Fail({f}, ClientErrorHandler(r))
                /\ UNCHANGED <<stack, attempts>>
        /\ UNCHANGED <<bucket, puts, parked, runs, mode, stack_name, objects>>

\* Seeded fault: the except clause of a create wait deletes the stack it
\* waited for before it gives up
WaitCreateRollingBack(f, s, max, next, done) ==
    LET r == WaiterPoll(CreateWaitAcceptor(stack[s]), attempts, max)
    IN  /\ IF r = "retry"
           THEN /\ attempts' = attempts + 1
                /\ UNCHANGED <<pc, issued, res, exc, exitStatus, stack>>
           ELSE /\ attempts' = 0
                /\ IF r = "success"
                   THEN /\ issued' = Append(issued, Request("wait_create", s, "", r))
                        /\ pc' = next
                        /\ res' = IF done THEN [res EXCEPT ![f] = "0"] ELSE res
                        /\ UNCHANGED <<exc, exitStatus, stack>>
                   ELSE /\ issued' = Append(Append(issued, Request("wait_create", s, "", r)),
                                            Request("delete_stack", s, "", "accepted"))
                        /\ stack' = [stack EXCEPT ![s] = DeleteStackEffect(@)]
                        /\ Fail({f}, WaiterErrorHandler)
        /\ UNCHANGED <<bucket, puts, parked, runs, mode, stack_name, objects>>

\* Seeded fault: the except clause tells a timeout from a failed stack and
\* returns -1 for the timeout only
WaitCreateTellingApart(f, s, max, next, done) ==
    LET r == WaiterPoll(CreateWaitAcceptor(stack[s]), attempts, max)
    IN  /\ IF r = "retry"
           THEN /\ attempts' = attempts + 1
                /\ UNCHANGED <<pc, issued, res, exc, exitStatus>>
           ELSE /\ attempts' = 0
                /\ issued' = Append(issued, Request("wait_create", s, "", r))
                /\ IF r = "success"
                   THEN /\ pc' = next
                        /\ res' = IF done THEN [res EXCEPT ![f] = "0"] ELSE res
                        /\ UNCHANGED <<exc, exitStatus>>
                   ELSE IF r = "timeout" THEN ReturnFailure({f})
                        ELSE Fail({f}, WaiterErrorHandler)
        /\ UNCHANGED <<stack, bucket, puts, parked, runs, mode, stack_name, objects>>

\* one status poll of waiter.wait for stack s inside function f; when the
\* wait is over, f goes on at next or its except clause runs; done: f
\* returns 0 after this wait
WaitCreate(f, s, max, next, done) ==
    LET r == WaiterPoll(CreateWaitAcceptor(stack[s]), attempts, max)
    IN  /\ IF r = "retry"
           THEN /\ attempts' = attempts + 1
                /\ UNCHANGED <<pc, issued, res, exc, exitStatus>>
           ELSE /\ attempts' = 0
                /\ issued' = Append(issued, Request("wait_create", s, "", r))
                /\ IF r = "success"
                   THEN /\ pc' = next
                        /\ res' = IF done THEN [res EXCEPT ![f] = "0"] ELSE res
                        /\ UNCHANGED <<exc, exitStatus>>
                   ELSE Fail({f}, WaiterErrorHandler)
        /\ UNCHANGED <<stack, bucket, puts, parked, runs, mode, stack_name, objects>>

\* s3.upload_file(k, b, k) inside function f, then its except clause;
\* done: f returns 0 after this upload
Upload(f, b, k, fault, wrapped, next, done) ==
    LET r == UploadResponse(b, fault)
    IN  /\ issued' = Append(issued, Request("upload_file", b, k, r))
        /\ IF r = "ok"
           THEN /\ bucket' = [bucket EXCEPT ![b].keys = @ \cup {k}]
                /\ pc' = next
                /\ res' = IF done THEN [res EXCEPT ![f] = "0"] ELSE res
                /\ UNCHANGED <<exc, exitStatus>>
           ELSE /\ Fail({f}, UploadErrorHandler(UploadException(r, wrapped)))
                /\ UNCHANGED bucket
        /\ UNCHANGED <<stack, puts, parked, runs, mode, attempts, stack_name, objects>>

(***************************************************************************)
(* create_s3_bucket                                                        *)
(***************************************************************************)
CreateBootstrapStack(ok) ==
    /\ pc = "cs3_create_bootstrap"
    /\ CreateStack("create_s3_bucket", CF_STACKNAME_BOOTSTRAP_S3, "", "", ok,
                   "cs3_wait_bootstrap")

\* Seeded fault: create_s3_bucket does not wait for the bootstrap stack
WaitBootstrapStackSkipped ==
    /\ pc = "cs3_wait_bootstrap"
    /\ pc' = "cs3_upload_template_s3"
    /\ UNCHANGED <<stack, bucket, puts, parked, runs, mode, attempts, stack_name,
                   objects, issued, res, exc, exitStatus>>

WaitBootstrapStack ==
    /\ pc = "cs3_wait_bootstrap"
    /\ WaitCreate("create_s3_bucket", CF_STACKNAME_BOOTSTRAP_S3,
                  StorageMaxAttempts, "cs3_upload_template_s3", FALSE)

UploadTemplateS3(fault, wrapped) ==
    /\ pc = "cs3_upload_template_s3"
    /\ Upload("create_s3_bucket", CF_BOOTSTRAP_S3_BUCKET_NAME, CF_TEMPLATE_S3,
              fault, wrapped, "cs3_create_lambda_s3", FALSE)

CreateLambdaS3Stack(ok) ==
    /\ pc = "cs3_create_lambda_s3"
    /\ CreateStack("create_s3_bucket", CF_STACKNAME_LAMBDA_S3,
                   CF_BOOTSTRAP_S3_BUCKET_NAME, CF_TEMPLATE_S3, ok,
                   "cs3_wait_lambda_s3")

WaitLambdaS3Stack ==
    /\ pc = "cs3_wait_lambda_s3"
    /\ WaitCreate("create_s3_bucket", CF_STACKNAME_LAMBDA_S3,
                  StorageMaxAttempts, "cs3_upload_template_lambda", FALSE)

\* Seeded fault: the LambdaFunction template is uploaded to the bootstrap
\* bucket
UploadTemplateLambdaToBootstrap(fault, wrapped) ==
    /\ pc = "cs3_upload_template_lambda"
    /\ Upload("create_s3_bucket", CF_BOOTSTRAP_S3_BUCKET_NAME, CF_TEMPLATE_LAMBDA,
              fault, wrapped, "cl_upload_source", TRUE)

\* the last step of create_s3_bucket: on success it returns 0 and the entry
\* point calls create_lambda
UploadTemplateLambda(fault, wrapped) ==
    /\ pc = "cs3_upload_template_lambda"
    /\ Upload("create_s3_bucket", CF_LAMBDA_S3_BUCKET_NAME, CF_TEMPLATE_LAMBDA,
              fault, wrapped, "cl_upload_source", TRUE)

(***************************************************************************)
(* create_lambda                                                           *)
(***************************************************************************)
\* Seeded fault: create_lambda creates the stack without uploading the
\* source first
UploadLambdaSourceSkipped(fault, wrapped) ==
    /\ pc = "cl_upload_source"
    /\ pc' = "cl_create_lambda"
    /\ UNCHANGED <<stack, bucket, puts, parked, runs, mode, attempts, stack_name,
                   objects, issued, res, exc, exitStatus>>

UploadLambdaSource(fault, wrapped) ==
    /\ pc = "cl_upload_source"
    /\ Upload("create_lambda", CF_LAMBDA_S3_BUCKET_NAME, CF_LAMBDA_SOURCE,
              fault, wrapped, "cl_create_lambda", FALSE)

CreateLambdaStack(ok) ==
    /\ pc = "cl_create_lambda"
    /\ CreateStack("create_lambda", CF_STACKNAME_LAMBDA,
                   CF_LAMBDA_S3_BUCKET_NAME, CF_TEMPLATE_LAMBDA, ok,
                   "cl_wait_lambda")

\* on success create_lambda returns 0 and the entry point goes on to read
\* the created resources
WaitLambdaStack ==
    /\ pc = "cl_wait_lambda"
    /\ WaitCreate("create_lambda", CF_STACKNAME_LAMBDA, LambdaMaxAttempts,
                  "inspect", TRUE)

\* the physical id of the TestRestApi resource, as describe_stack_resource
\* reports it
RestApiId == "phys-TestRestApi"

\* the eleven read-only calls at the end of a create-mode run, in program
\* order: five of the cloudformation client, six of the apigateway client
InspectionCalls ==
    << Request("describe_stack_resources", CF_STACKNAME_LAMBDA, "", ""),
       Request("describe_stack_resource", CF_STACKNAME_LAMBDA, "TestRestApi", ""),
       Request("describe_stack_resource", CF_STACKNAME_LAMBDA, "UsersGet", ""),
       Request("describe_stack_resource", CF_STACKNAME_LAMBDA, "UsersResource", ""),
       Request("describe_stack_resource", CF_STACKNAME_LAMBDA, "TestRestApiDeployment", ""),
       Request("get_rest_api", RestApiId, "", ""),
       Request("get_method", RestApiId, "", ""),
       Request("get_resource", RestApiId, "", ""),
       Request("get_deployment", RestApiId, "", ""),
       Request("get_stages", RestApiId, "", ""),
       Request("get_stage", RestApiId, "", "") >>

InspectionOps == {InspectionCalls[i].op : i \in 1..Len(InspectionCalls)}

\* the inspection calls the run has sent
Inspected == Cardinality({i \in 1..Len(issued) : issued[i].op \in InspectionOps})

\* what a call of the inspection block may be answered: "empty" is a
\* get_stages response that lists no stage
InspectionAnswers(op) ==
    IF op = "get_stages" THEN {"ok", "AccessDenied", "empty"}
    ELSE {"ok", "AccessDenied"}

\* the next call of the inspection block, none of them in a try: a
\* ClientError leaves the script; stages['item'][0] raises IndexError
\* before get_stage is sent when no stage was listed; after the last call,
\* exit(0)
InspectResources(answer) ==
    /\ pc = "inspect"
    /\ Inspected < Len(InspectionCalls)
    /\ LET call == InspectionCalls[Inspected + 1]
       IN  IF call.op = "get_stage" /\ issued[Len(issued)].outcome = "empty"
           THEN /\ answer = "ok"
                /\ Raise({}, "IndexError")
                /\ UNCHANGED issued
           ELSE /\ answer \in InspectionAnswers(call.op)
                /\ issued' = Append(issued, Request(call.op, call.target, call.key, answer))
                /\ IF answer = "AccessDenied"
                   THEN Raise({}, "ClientError")
                   ELSE IF Inspected + 1 = Len(InspectionCalls)
                   THEN /\ pc' = "done"
                        /\ exitStatus' = "exit(0)"
                        /\ UNCHANGED <<res, exc>>
                   ELSE UNCHANGED <<pc, res, exc, exitStatus>>
    /\ UNCHANGED <<stack, bucket, puts, parked, runs, mode, attempts, stack_name,
                   objects>>

(***************************************************************************)
(* delete_cloudformation_stacks: emptying the buckets                      *)
(***************************************************************************)
\* s3.list_objects_v2(Bucket=b): outside any try, so a ClientError (the
\* bucket does not exist, access denied) leaves the script; on success the
\* objects listed are deleted next, unless KeyCount is 0
ListObjects(b, fault, pg, delete, next) ==
    LET r == IF ~bucket[b].exists THEN "NoSuchBucket"
             ELSE IF fault = "denied" THEN "AccessDenied"
             ELSE "ok"
    IN  /\ issued' = Append(issued, Request("list_objects_v2", b, "", r))
        /\ IF r = "ok"
           THEN /\ pg \in ListPages(b)
                /\ objects' = pg
                /\ pc' = IF Cardinality(pg.keys) + pg.extra # 0 THEN delete ELSE next
                /\ UNCHANGED <<res, exc, exitStatus>>
           ELSE /\ Raise({"delete_cloudformation_stacks"}, "ClientError")
                /\ UNCHANGED objects
        /\ UNCHANGED <<stack, bucket, puts, parked, runs, mode, attempts>>

\* s3.delete_objects(Bucket=b, Delete=objDict) for the objects listed
DeleteObjects(b, ok, next) ==
    /\ issued' = Append(issued, Request("delete_objects", b, "",
                                        IF ok THEN "ok" ELSE "AccessDenied"))
    /\ IF ok
       THEN /\ bucket' = [bucket EXCEPT ![b].keys = @ \ objects.keys,
                                        ![b].extra = @ - objects.extra]
            /\ pc' = next
            /\ UNCHANGED <<res, exc, exitStatus>>
       ELSE /\ Raise({"delete_cloudformation_stacks"}, "ClientError")
            /\ UNCHANGED bucket
    /\ UNCHANGED <<stack, puts, parked, runs, mode, attempts, objects>>

PagesOrNone(b) == IF bucket[b].exists THEN ListPages(b) ELSE {NoObjects}

ListBootstrapBucket(fault, pg) ==
    /\ pc = "dcs_list_bootstrap"
    /\ ListObjects(CF_BOOTSTRAP_S3_BUCKET_NAME, fault, pg,
                   "dcs_empty_bootstrap", "dcs_list_lambda")
    /\ UNCHANGED stack_name

EmptyBootstrapBucket(ok) ==
    /\ pc = "dcs_empty_bootstrap"
    /\ DeleteObjects(CF_BOOTSTRAP_S3_BUCKET_NAME, ok, "dcs_list_lambda")
    /\ UNCHANGED stack_name

\* after the lambda bucket, the first delete_cf_stack call is next
ListLambdaBucket(fault, pg) ==
    /\ pc = "dcs_list_lambda"
    /\ ListObjects(CF_LAMBDA_S3_BUCKET_NAME, fault, pg,
                   "dcs_empty_lambda", "dcf_delete_stack")
    /\ stack_name' = IF pc' = "dcf_delete_stack" THEN CF_STACKNAME_LAMBDA
                     ELSE stack_name

EmptyLambdaBucket(ok) ==
    /\ pc = "dcs_empty_lambda"
    /\ DeleteObjects(CF_LAMBDA_S3_BUCKET_NAME, ok, "dcf_delete_stack")
    /\ stack_name' = IF ok THEN CF_STACKNAME_LAMBDA ELSE stack_name

(***************************************************************************)
(* delete_cf_stack, as delete_cloudformation_stacks calls it               *)
(***************************************************************************)
\* wait_max_attempts of the call for stack s
WaitMaxAttempts(s) ==
    IF s = CF_STACKNAME_LAMBDA THEN LambdaMaxAttempts ELSE StorageMaxAttempts

\* Seeded fault: the chain of "or" leaves out the call for LambdaS3Bucket
NextDeleteSkipping(s) ==
    IF s = CF_STACKNAME_LAMBDA THEN CF_STACKNAME_BOOTSTRAP_S3
    ELSE ""

\* the call that follows the call for stack s in the chain of "or" ("" at
\* its end)
NextDelete(s) ==
    IF s = CF_STACKNAME_LAMBDA THEN CF_STACKNAME_LAMBDA_S3
    ELSE IF s = CF_STACKNAME_LAMBDA_S3 THEN CF_STACKNAME_BOOTSTRAP_S3
    ELSE ""

\* verbose of every call the script makes (the default)
Verbose == TRUE

\* cf_client.delete_stack(StackName=stack_name): outside the try, so a
\* ClientError (ok false) leaves delete_cf_stack, its caller and the script
DeleteStack(ok) ==
    /\ pc = "dcf_delete_stack"
    /\ IF ok
       THEN /\ issued' = Append(issued, Request("delete_stack", stack_name, "",
                           IF StackExists(stack_name) THEN "accepted" ELSE "noop"))
            /\ stack' = [stack EXCEPT ![stack_name] = DeleteStackEffect(@)]
            /\ res' = [res EXCEPT !["delete_cf_stack"] = "none"]
            /\ pc' = "dcf_wait"
            /\ attempts' = 0
            /\ UNCHANGED <<exc, exitStatus>>
       ELSE /\ issued' = Append(issued, Request("delete_stack", stack_name, "",
                                                "AccessDenied"))
            /\ Raise({"delete_cf_stack", "delete_cloudformation_stacks"}, "ClientError")
            /\ UNCHANGED <<stack, attempts>>
    /\ UNCHANGED <<bucket, puts, parked, runs, mode, stack_name, objects>>

\* Seeded fault: the teardown branch of the entry point lacks its exit(0),
\* so that after the last delete the script goes on to create the stacks
WaitDeleteFallingThrough ==
    /\ pc = "dcf_wait"
    /\ LET r == WaiterPoll(DeleteWaitAcceptor(stack[stack_name]), attempts,
                           WaitMaxAttempts(stack_name))
       IN  IF r = "retry"
           THEN /\ attempts' = attempts + 1
                /\ UNCHANGED <<pc, stack_name, issued, res, exc, exitStatus>>
           ELSE /\ attempts' = 0
                /\ issued' = Append(issued, Request("wait_delete", stack_name, "", r))
                /\ IF r = "success"
                   THEN IF NextDelete(stack_name) # ""
                        THEN /\ stack_name' = NextDelete(stack_name)
                             /\ pc' = "dcf_delete_stack"
                             /\ res' = [res EXCEPT !["delete_cf_stack"] = "0"]
                             /\ UNCHANGED <<exc, exitStatus>>
                        ELSE /\ pc' = "cs3_create_bootstrap"
                             /\ res' = [res EXCEPT !["delete_cf_stack"] = "0",
                                          !["delete_cloudformation_stacks"] = "0"]
                             /\ UNCHANGED <<stack_name, exc, exitStatus>>
                   ELSE /\ Fail({"delete_cf_stack", "delete_cloudformation_stacks"},
                                DeleteWaiterErrorHandler(Verbose))
                        /\ UNCHANGED stack_name
    /\ UNCHANGED <<stack, bucket, puts, parked, runs, mode, objects>>

\* one status poll of the stack_delete_complete waiter; when the wait
\* succeeds delete_cf_stack returns 0 and the next call of the chain is
\* made, or delete_cloudformation_stacks returns 0 and the script exits
WaitDelete ==
    /\ pc = "dcf_wait"
    /\ LET r == WaiterPoll(DeleteWaitAcceptor(stack[stack_name]), attempts,
                           WaitMaxAttempts(stack_name))
       IN  IF r = "retry"
           THEN /\ attempts' = attempts + 1
                /\ UNCHANGED <<pc, stack_name, issued, res, exc, exitStatus>>
           ELSE /\ attempts' = 0
                /\ issued' = Append(issued, Request("wait_delete", stack_name, "", r))
                /\ IF r = "success"
                   THEN IF NextDelete(stack_name) # ""
                        THEN /\ stack_name' = NextDelete(stack_name)
                             /\ pc' = "dcf_delete_stack"
                             /\ res' = [res EXCEPT !["delete_cf_stack"] = "0"]
                             /\ UNCHANGED <<exc, exitStatus>>
                        ELSE /\ pc' = "done"
                             /\ res' = [res EXCEPT !["delete_cf_stack"] = "0",
                                          !["delete_cloudformation_stacks"] = "0"]
                             /\ exitStatus' = "exit(0)"
                             /\ UNCHANGED <<stack_name, exc>>
                   ELSE /\ Fail({"delete_cf_stack", "delete_cloudformation_stacks"},
                                DeleteWaiterErrorHandler(Verbose))
                        /\ UNCHANGED stack_name
    /\ UNCHANGED <<stack, bucket, puts, parked, runs, mode, objects>>

(***************************************************************************)
(* The specification.                                                      *)
(***************************************************************************)
Next ==
    \/ \E m \in {"create", "delete"} : StartRun(m)
    \/ \E ok \in BOOLEAN : CreateBootstrapStack(ok)
    \/ WaitBootstrapStack
    \/ \E fault \in UploadFaults, wrapped \in BOOLEAN : UploadTemplateS3(fault, wrapped)
    \/ \E ok \in BOOLEAN : CreateLambdaS3Stack(ok)
    \/ WaitLambdaS3Stack
    \/ \E fault \in UploadFaults, wrapped \in BOOLEAN : UploadTemplateLambda(fault, wrapped)
    \/ \E fault \in UploadFaults, wrapped \in BOOLEAN : UploadLambdaSource(fault, wrapped)
    \/ \E ok \in BOOLEAN : CreateLambdaStack(ok)
    \/ WaitLambdaStack
    \/ \E answer \in {"ok", "AccessDenied", "empty"} : InspectResources(answer)
    \/ \E fault \in {"none", "denied"} :
          \E pg \in PagesOrNone(CF_BOOTSTRAP_S3_BUCKET_NAME) : ListBootstrapBucket(fault, pg)
    \/ \E ok \in BOOLEAN : EmptyBootstrapBucket(ok)
    \/ \E fault \in {"none", "denied"} :
          \E pg \in PagesOrNone(CF_LAMBDA_S3_BUCKET_NAME) : ListLambdaBucket(fault, pg)
    \/ \E ok \in BOOLEAN : EmptyLambdaBucket(ok)
    \/ \E ok \in BOOLEAN : DeleteStack(ok)
    \/ WaitDelete
    \/ \E s \in Stacks : ProviderCreateComplete(s)
    \/ \E s \in Stacks : ProviderCreateFailed(s)
    \/ \E s \in Stacks : ProviderDeleteComplete(s)
    \/ \E s \in Stacks : ProviderDeleteFailed(s)
    \/ \E b \in Buckets, n \in {1, ListMaxKeys} : PutObjects(b, n)

Spec == Init /\ [][Next]_vars

\* the steps of the script: a run that has been started goes on, every
\* blocking call returns and every waiter polls again after its delay
ScriptStep ==
    \/ \E ok \in BOOLEAN : CreateBootstrapStack(ok)
    \/ WaitBootstrapStack
    \/ \E fault \in UploadFaults, wrapped \in BOOLEAN : UploadTemplateS3(fault, wrapped)
    \/ \E ok \in BOOLEAN : CreateLambdaS3Stack(ok)
    \/ WaitLambdaS3Stack
    \/ \E fault \in UploadFaults, wrapped \in BOOLEAN : UploadTemplateLambda(fault, wrapped)
    \/ \E fault \in UploadFaults, wrapped \in BOOLEAN : UploadLambdaSource(fault, wrapped)
    \/ \E ok \in BOOLEAN : CreateLambdaStack(ok)
    \/ WaitLambdaStack
    \/ \E answer \in {"ok", "AccessDenied", "empty"} : InspectResources(answer)
    \/ \E fault \in {"none", "denied"} :
          \E pg \in PagesOrNone(CF_BOOTSTRAP_S3_BUCKET_NAME) : ListBootstrapBucket(fault, pg)
    \/ \E ok \in BOOLEAN : EmptyBootstrapBucket(ok)
    \/ \E fault \in {"none", "denied"} :
          \E pg \in PagesOrNone(CF_LAMBDA_S3_BUCKET_NAME) : ListLambdaBucket(fault, pg)
    \/ \E ok \in BOOLEAN : EmptyLambdaBucket(ok)
    \/ \E ok \in BOOLEAN : DeleteStack(ok)
    \/ WaitDelete

\* the provider is under no obligation: a stack may stay creating or
\* deleting for ever
SpecLive == Spec /\ WF_vars(ScriptStep)

(***************************************************************************)
(* Two processes of the script in create mode at the same time, against    *)
(* the same account.  The variables of the program are those of the        *)
(* process that takes the current step; the other process's are parked.    *)
(* Switch hands the processor to the other process, between any two        *)
(* requests.                                                               *)
(***************************************************************************)
\* the program state of the process taking the current step
Current ==
    [runs |-> runs, mode |-> mode, pc |-> pc, attempts |-> attempts,
     stack_name |-> stack_name, objects |-> objects, issued |-> issued,
     res |-> res, exc |-> exc, exitStatus |-> exitStatus]

Switch ==
    /\ parked.pc \notin {"off", "done"}
    /\ parked' = Current
    /\ runs' = parked.runs
    /\ mode' = parked.mode
    /\ pc' = parked.pc
    /\ attempts' = parked.attempts
    /\ stack_name' = parked.stack_name
    /\ objects' = parked.objects
    /\ issued' = parked.issued
    /\ res' = parked.res
    /\ exc' = parked.exc
    /\ exitStatus' = parked.exitStatus
    /\ UNCHANGED <<stack, bucket, puts>>

\* both processes have been started without -d, on an account that holds
\* none of the stacks
InitRace ==
    /\ stack = [s \in Stacks |-> "absent"]
    /\ bucket = [b \in Buckets |-> EmptyBucket]
    /\ puts = 0
    /\ parked = Process("cs3_create_bootstrap")
    /\ runs = 1
    /\ mode = "create"
    /\ pc = "cs3_create_bootstrap"
    /\ attempts = 0
    /\ stack_name = ""
    /\ objects = NoObjects
    /\ issued = <<>>
    /\ res = NoResult
    /\ exc = "none"
    /\ exitStatus = "running"

NextRace ==
    \/ Switch
    \/ \E ok \in BOOLEAN : CreateBootstrapStack(ok)
    \/ WaitBootstrapStack
    \/ \E fault \in UploadFaults, wrapped \in BOOLEAN : UploadTemplateS3(fault, wrapped)
    \/ \E ok \in BOOLEAN : CreateLambdaS3Stack(ok)
    \/ WaitLambdaS3Stack
    \/ \E fault \in UploadFaults, wrapped \in BOOLEAN : UploadTemplateLambda(fault, wrapped)
    \/ \E fault \in UploadFaults, wrapped \in BOOLEAN : UploadLambdaSource(fault, wrapped)
    \/ \E ok \in BOOLEAN : CreateLambdaStack(ok)
    \/ WaitLambdaStack
    \/ \E answer \in {"ok", "AccessDenied", "empty"} : InspectResources(answer)
    \/ \E s \in Stacks : ProviderCreateComplete(s)
    \/ \E s \in Stacks : ProviderCreateFailed(s)

SpecRace == InitRace /\ [][NextRace]_vars

TypeOK ==
    /\ stack \in [Stacks -> StackStates]
    /\ \A b \in Buckets : /\ bucket[b].exists \in BOOLEAN
                          /\ bucket[b].keys \subseteq Keys
                          /\ bucket[b].extra \in Nat
                          /\ ~bucket[b].exists => KeyCount(b) = 0
    /\ runs \in 0..MaxRuns
    /\ puts \in 0..MaxPuts
    /\ mode \in {"none", "create", "delete"}
    /\ attempts \in 0..LambdaMaxAttempts
    /\ stack_name \in Stacks \cup {""}
    /\ res \in [Funcs -> {"none", "0", "-1", "raised"}]
    /\ exitStatus \in {"none", "running", "exit(0)", "exit(-1)", "traceback"}

(***************************************************************************)
(* Vocabulary of the properties.                                           *)
(***************************************************************************)
RunEnded == pc = "done"

LastIssued == issued[Len(issued)]

\* this step sends a request op for target
Sends(op, target) ==
    /\ Len(issued') = Len(issued) + 1
    /\ issued'[Len(issued')].op = op
    /\ issued'[Len(issued')].target = target

\* the request has been sent in the current run
Issued(r) == \E i \in 1..Len(issued) : issued[i] = r

\* the function whose code sends the upload of key k
UploadStage(k) ==
    IF k = CF_LAMBDA_SOURCE THEN "create_lambda" ELSE "create_s3_bucket"

\* the bucket a remote template reference names, by the stack created from it
TemplateBucket(s) ==
    IF s = CF_STACKNAME_LAMBDA_S3 THEN CF_BOOTSTRAP_S3_BUCKET_NAME
    ELSE CF_LAMBDA_S3_BUCKET_NAME

(***************************************************************************)
(* C1.  In a create-mode run the create request for LambdaS3Bucket is sent *)
(* only after the wait on BootstrapS3Bucket has reported it created, and   *)
(* BootstrapS3Bucket is created (not absent, creating or create_failed) at *)
(* the moment the request is sent.                                         *)
(***************************************************************************)
C1_BuildAfterBootstrapCreated ==
    [][Sends("create_stack", CF_STACKNAME_LAMBDA_S3) =>
          /\ mode = "create"
          /\ stack[CF_STACKNAME_BOOTSTRAP_S3] = "created"
          /\ Issued(Request("wait_create", CF_STACKNAME_BOOTSTRAP_S3, "", "success"))]_vars

C1_Witness ==
    /\ mode = "create"
    /\ \E i \in 1..Len(issued) : /\ issued[i].op = "create_stack"
                                 /\ issued[i].target = CF_STACKNAME_LAMBDA_S3
                                 /\ issued[i].outcome = "accepted"

(***************************************************************************)
(* C2.  In teardown mode both buckets hold no object at the moment each    *)
(* delete-stack request is sent, whatever the buckets held when the run    *)
(* started.                                                                *)
(***************************************************************************)
C2_BucketsEmptyAtDelete ==
    [][(\E s \in Stacks : Sends("delete_stack", s)) =>
          \A b \in Buckets : KeyCount(b) = 0]_vars

(***************************************************************************)
(* C3.  In teardown mode the delete-stack requests are sent in the order   *)
(* LambdaFunction, LambdaS3Bucket, BootstrapS3Bucket, each one after the   *)
(* one before it was waited for with success; the first deletion that      *)
(* fails is the last request of the run, and delete_cloudformation_stacks  *)
(* then returns -1.                                                        *)
(***************************************************************************)
C3_DeleteOrderAndFailure ==
    /\ \A i \in 1..Len(issued) :
          issued[i].op = "delete_stack" =>
             \/ /\ issued[i].target = CF_STACKNAME_LAMBDA
                /\ \A j \in 1..(i - 1) : issued[j].op # "delete_stack"
             \/ /\ i > 2
                /\ issued[i - 1].op = "wait_delete"
                /\ issued[i - 1].outcome = "success"
                /\ issued[i].target = NextDelete(issued[i - 1].target)
                /\ issued[i - 2] = Request("delete_stack", issued[i - 1].target, "",
                                           issued[i - 2].outcome)
    /\ \A i \in 1..Len(issued) :
          (issued[i].op = "wait_delete" /\ issued[i].outcome # "success") =>
             /\ i = Len(issued)
             /\ RunEnded
             /\ res["delete_cloudformation_stacks"] = "-1"

(***************************************************************************)
(* C4.  create_s3_bucket, create_lambda, delete_cf_stack and               *)
(* delete_cloudformation_stacks end every call by returning 0 or -1: no    *)
(* provider failure makes one of them end with an exception.               *)
(***************************************************************************)
C4_FunctionsReturn ==
    \A f \in Funcs : res[f] # "raised"

(***************************************************************************)
(* C5.  When the wait on BootstrapS3Bucket runs out of attempts,           *)
(* create_s3_bucket returns -1, the wait is the last request of the run    *)
(* and the process exits with a non-zero status.                           *)
(***************************************************************************)
C5_BootstrapTimeoutAborts ==
    \A i \in 1..Len(issued) :
       issued[i] = Request("wait_create", CF_STACKNAME_BOOTSTRAP_S3, "", "timeout") =>
          /\ i = Len(issued)
          /\ RunEnded
          /\ res["create_s3_bucket"] = "-1"
          /\ exitStatus \in {"exit(-1)", "traceback"}

(***************************************************************************)
(* C6.  A create request for a stack that exists is answered with          *)
(* AlreadyExistsException and changes no stack and no bucket; a            *)
(* create-mode run whose first request finds BootstrapS3Bucket existing    *)
(* ends at that request, create_s3_bucket returning -1 and the script      *)
(* calling exit(-1), and the run has changed no stack and no bucket.       *)
(***************************************************************************)
C6_CreateOfExistingStack ==
    [][/\ \A s \in Stacks :
             (Sends("create_stack", s) /\ StackExists(s)) =>
                /\ issued'[Len(issued')].outcome = "AlreadyExistsException"
                /\ UNCHANGED provider
       /\ (/\ pc = "cs3_create_bootstrap"
           /\ StackExists(CF_STACKNAME_BOOTSTRAP_S3)
           /\ program' # program) =>
              /\ RunEnded'
              /\ Len(issued') = 1
              /\ res'["create_s3_bucket"] = "-1"
              /\ exitStatus' = "exit(-1)"
              /\ UNCHANGED provider]_vars

C6_Witness ==
    /\ RunEnded
    /\ mode = "create"
    /\ issued = <<Request("create_stack", CF_STACKNAME_BOOTSTRAP_S3, "",
                          "AlreadyExistsException")>>
    /\ res["create_s3_bucket"] = "-1"

(***************************************************************************)
(* C7.  delete_cf_stack called for a stack that does not exist changes no  *)
(* stack and no bucket; the provider answers its delete request as it      *)
(* answers one for a stack that exists, unless it refuses the request, and *)
(* the call then returns 0 on the first status poll; this holds of every   *)
(* such call, however many were made before.                               *)
(***************************************************************************)
C7_DeleteOfAbsentStack ==
    [][/\ (/\ pc = "dcf_delete_stack"
           /\ ~StackExists(stack_name)
           /\ program' # program) =>
              /\ \/ issued'[Len(issued')] = Request("delete_stack", stack_name, "", "noop")
                 \/ /\ issued'[Len(issued')] =
                          Request("delete_stack", stack_name, "", "AccessDenied")
                    /\ exc' = "ClientError"
              /\ UNCHANGED provider
       /\ (/\ pc = "dcf_wait"
           /\ LastIssued = Request("delete_stack", stack_name, "", "noop")
           /\ program' # program) =>
              /\ issued'[Len(issued')] = Request("wait_delete", stack_name, "", "success")
              /\ res'["delete_cf_stack"] = "0"
              /\ exc' = "none"
              /\ UNCHANGED provider]_vars

\* the third run is a teardown that has called delete_cf_stack for the
\* LambdaFunction stack, never created, as the teardown before it did
C7_Witness ==
    /\ runs = 3
    /\ mode = "delete"
    /\ pc = "dcf_delete_stack"
    /\ stack[CF_STACKNAME_LAMBDA] = "absent"
    /\ stack[CF_STACKNAME_LAMBDA_S3] \in {"deleting", "delete_failed"}
    /\ res["delete_cf_stack"] = "0"
    /\ Len(issued) >= 2
    /\ issued[Len(issued) - 1] = Request("delete_stack", CF_STACKNAME_LAMBDA, "", "noop")
    /\ LastIssued = Request("wait_delete", CF_STACKNAME_LAMBDA, "", "success")

(***************************************************************************)
(* C8.  At the moment a create request with a remote template reference    *)
(* is sent (LambdaS3Bucket, LambdaFunction), the bucket the reference      *)
(* names exists, the stack that owns it is created, and the bucket holds   *)
(* the referenced key from an upload that succeeded in this run.           *)
(***************************************************************************)
C8_TemplateResolvable ==
    [][\A s \in {CF_STACKNAME_LAMBDA_S3, CF_STACKNAME_LAMBDA} :
          Sends("create_stack", s) =>
             LET b == TemplateBucket(s)
                 k == issued'[Len(issued')].key
             IN  /\ k \in {CF_TEMPLATE_S3, CF_TEMPLATE_LAMBDA}
                 /\ stack[BucketStack(b)] = "created"
                 /\ bucket[b].exists
                 /\ k \in bucket[b].keys
                 /\ Issued(Request("upload_file", b, k, "ok"))]_vars

C8_Witness ==
    /\ Issued(Request("create_stack", CF_STACKNAME_LAMBDA_S3, CF_TEMPLATE_S3, "accepted"))
    /\ Issued(Request("create_stack", CF_STACKNAME_LAMBDA, CF_TEMPLATE_LAMBDA, "accepted"))

(***************************************************************************)
(* C9.  An upload that fails (local file missing, bucket missing,          *)
(* permission denied) is sent once, is the last request of the run, and    *)
(* the function that sent it returns -1.                                   *)
(***************************************************************************)
C9_UploadFailureAborts ==
    \A i \in 1..Len(issued) :
       (issued[i].op = "upload_file" /\ issued[i].outcome # "ok") =>
          /\ i = Len(issued)
          /\ RunEnded
          /\ \A j \in 1..Len(issued) :
                (/\ issued[j].op = "upload_file"
                 /\ issued[j].target = issued[i].target
                 /\ issued[j].key = issued[i].key) => j = i
          /\ res[UploadStage(issued[i].key)] = "-1"

(***************************************************************************)
(* C10.  A create-mode run sends no delete-stack and no delete-objects     *)
(* request; every stack a wait of the run has reported created is still    *)
(* created, also after the run has failed; and the step at which the run   *)
(* fails changes no stack and no bucket.                                   *)
(***************************************************************************)
C10_NoRollback ==
    /\ [](mode = "create" =>
            \A i \in 1..Len(issued) :
               /\ issued[i].op \notin {"delete_stack", "delete_objects"}
               /\ (issued[i].op = "wait_create" /\ issued[i].outcome = "success") =>
                     stack[issued[i].target] = "created")
    /\ [][(/\ mode = "create"
           /\ ~RunEnded
           /\ RunEnded'
           /\ exitStatus' # "exit(0)") => UNCHANGED provider]_vars

\* the run failed on the second stack after the first was created
C10_Witness ==
    /\ mode = "create"
    /\ RunEnded
    /\ exitStatus # "exit(0)"
    /\ Issued(Request("wait_create", CF_STACKNAME_BOOTSTRAP_S3, "", "success"))
    /\ LastIssued = Request("wait_create", CF_STACKNAME_LAMBDA_S3, "", "terminal")
    /\ stack[CF_STACKNAME_BOOTSTRAP_S3] = "created"
    /\ stack[CF_STACKNAME_LAMBDA_S3] = "create_failed"

(***************************************************************************)
(* C11.  When the three create requests, the three waits and the three     *)
(* uploads of a create-mode run have all succeeded, create_s3_bucket and   *)
(* create_lambda have both returned 0, which is the overall result of the  *)
(* stages, the script never calls exit(-1), and BootstrapS3Bucket,         *)
(* LambdaS3Bucket and LambdaFunction are created.  The script then reads   *)
(* the created resources: it calls exit(0) when these reads are answered,  *)
(* and ends otherwise only on the exception of a read.                     *)
(***************************************************************************)
StageRequests == {"create_stack", "wait_create", "upload_file"}

AllStagesSucceeded ==
    /\ mode = "create"
    /\ Cardinality({i \in 1..Len(issued) : issued[i].op \in StageRequests}) = 9
    /\ \A i \in 1..Len(issued) :
          issued[i].op \in StageRequests =>
             issued[i].outcome \in {"accepted", "success", "ok"}

C11_AllSucceed ==
    AllStagesSucceeded =>
       /\ res["create_s3_bucket"] = "0"
       /\ res["create_lambda"] = "0"
       /\ exitStatus # "exit(-1)"
       /\ \A s \in Stacks : stack[s] = "created"
       /\ RunEnded =>
             IF LastIssued = Request("get_stage", RestApiId, "", "ok")
             THEN exitStatus = "exit(0)" /\ Inspected = Len(InspectionCalls)
             ELSE /\ exitStatus = "traceback"
                  /\ LastIssued.op \in InspectionOps
                  /\ LastIssued.outcome \in {"AccessDenied", "empty"}

C11_Witness ==
    /\ AllStagesSucceeded
    /\ RunEnded
    /\ exitStatus = "exit(0)"

(***************************************************************************)
(* C12.  Of two create-mode runs at the same time at most one has its      *)
(* create request for BootstrapS3Bucket accepted; a request for it sent    *)
(* once the other run's was accepted is answered AlreadyExistsException,   *)
(* and the run so answered has sent nothing else, create_s3_bucket has     *)
(* returned -1 and the script has called exit(-1).                         *)
(***************************************************************************)
\* the answer to process q's create request for BootstrapS3Bucket, the
\* first request of a create-mode run
BootstrapAnswer(q) ==
    IF Len(q.issued) = 0 THEN "unsent" ELSE q.issued[1].outcome

C12_RaceOnBootstrap ==
    /\ [](/\ ~(BootstrapAnswer(Current) = "accepted" /\ BootstrapAnswer(parked) = "accepted")
          /\ \A q \in {Current, parked} :
                BootstrapAnswer(q) = "AlreadyExistsException" =>
                   /\ q.issued = <<Request("create_stack", CF_STACKNAME_BOOTSTRAP_S3, "",
                                           "AlreadyExistsException")>>
                   /\ q.pc = "done"
                   /\ q.res["create_s3_bucket"] = "-1"
                   /\ q.exitStatus = "exit(-1)")
    /\ [][(/\ Sends("create_stack", CF_STACKNAME_BOOTSTRAP_S3)
           /\ parked' = parked
           /\ BootstrapAnswer(parked) = "accepted") =>
              issued'[1].outcome = "AlreadyExistsException"]_vars

\* one run has gone through all its stages, the other lost the race
C12_Witness ==
    /\ BootstrapAnswer(parked) = "AlreadyExistsException"
    /\ BootstrapAnswer(Current) = "accepted"
    /\ RunEnded
    /\ exitStatus = "exit(0)"

(***************************************************************************)
(* C13.  Across create-mode and teardown-mode runs, every change of a      *)
(* stack's lifecycle state is a transition of the state machine, and no    *)
(* create request is accepted for a stack that is creating or deleting.    *)
(* As stated, the state machine has the transitions absent to creating,    *)
(* creating to created or create_failed, created to deleting, deleting to  *)
(* deleted or delete_failed.  The runs also take a stack from deleted to   *)
(* creating (create after a teardown) and from creating, create_failed     *)
(* and delete_failed to deleting (teardown of a stack whose creation or    *)
(* deletion did not complete): the amended statement admits these four,    *)
(* and says of each transition what the state machine's labels say: a      *)
(* stack enters creating only by the create request a create-mode run      *)
(* sends for it, the one such request of that run; it enters deleting only *)
(* by the delete request a teardown-mode run sends for it, the one such    *)
(* request of that run; the script takes no part in the other changes.     *)
(***************************************************************************)
StatedTransitions ==
    {<<"absent", "creating">>, <<"creating", "created">>,
     <<"creating", "create_failed">>, <<"created", "deleting">>,
     <<"deleting", "deleted">>, <<"deleting", "delete_failed">>}

AmendedTransitions ==
    StatedTransitions \cup
    {<<"deleted", "creating">>, <<"creating", "deleting">>,
     <<"create_failed", "deleting">>, <<"delete_failed", "deleting">>}

\* a create request for stack s is accepted in this step
CreateAccepted(s) ==
    /\ Sends("create_stack", s)
    /\ issued'[Len(issued')].outcome = "accepted"

C13_StatedStateMachine ==
    [][\A s \in Stacks :
          /\ stack'[s] # stack[s] => <<stack[s], stack'[s]>> \in StatedTransitions
          /\ CreateAccepted(s) => stack[s] \notin {"creating", "deleting"}]_vars

\* the run has sent a request op for stack s before this step
SentBefore(op, s) ==
    \E i \in 1..Len(issued) : issued[i].op = op /\ issued[i].target = s

C13_AmendedStateMachine ==
    [][\A s \in Stacks :
          /\ stack'[s] # stack[s] =>
                /\ <<stack[s], stack'[s]>> \in AmendedTransitions
                /\ stack'[s] = "creating" =>
                      /\ mode = "create"
                      /\ CreateAccepted(s)
                      /\ ~SentBefore("create_stack", s)
                      /\ ~SentBefore("delete_stack", s)
                /\ stack'[s] = "deleting" =>
                      /\ mode = "delete"
                      /\ Sends("delete_stack", s)
                      /\ issued'[Len(issued')].outcome = "accepted"
                      /\ ~SentBefore("delete_stack", s)
                      /\ ~SentBefore("create_stack", s)
                /\ stack'[s] \notin {"creating", "deleting"} => UNCHANGED program
          /\ CreateAccepted(s) => stack[s] \notin {"creating", "deleting"}]_vars

\* a third run has had a create request accepted after a teardown took the
\* stack of that name through deleting
C13_Witness ==
    /\ runs = 3
    /\ mode = "create"
    /\ Issued(Request("create_stack", CF_STACKNAME_BOOTSTRAP_S3, "", "accepted"))
    /\ stack[CF_STACKNAME_BOOTSTRAP_S3] = "creating"
    /\ stack[CF_STACKNAME_LAMBDA] = "deleted"

(***************************************************************************)
(* C14.  The create request for LambdaFunction is sent only when, in the   *)
(* same run, create_s3_bucket has returned 0 (the waits on both storage    *)
(* stacks reported them created and they are created, the LambdaFunction   *)
(* template has been uploaded to the lambda bucket) and the upload of      *)
(* test.zip to the lambda bucket has completed: that upload is the request *)
(* just before the create request, and the bucket holds the object.        *)
(***************************************************************************)
C14_DeployAfterBuildAndUpload ==
    [][Sends("create_stack", CF_STACKNAME_LAMBDA) =>
          /\ res["create_s3_bucket"] = "0"
          /\ \A s \in {CF_STACKNAME_BOOTSTRAP_S3, CF_STACKNAME_LAMBDA_S3} :
                /\ Issued(Request("wait_create", s, "", "success"))
                /\ stack[s] = "created"
          /\ Issued(Request("upload_file", CF_LAMBDA_S3_BUCKET_NAME,
                            CF_TEMPLATE_LAMBDA, "ok"))
          /\ Len(issued) > 0
          /\ LastIssued = Request("upload_file", CF_LAMBDA_S3_BUCKET_NAME,
                                  CF_LAMBDA_SOURCE, "ok")
          /\ {CF_TEMPLATE_LAMBDA, CF_LAMBDA_SOURCE} \subseteq
                bucket[CF_LAMBDA_S3_BUCKET_NAME].keys]_vars

C14_Witness ==
    /\ mode = "create"
    /\ Len(issued) > 0
    /\ LastIssued.op = "create_stack"
    /\ LastIssued.target = CF_STACKNAME_LAMBDA

(***************************************************************************)
(* C15.  A wait makes at most its number of status polls, 12 for the       *)
(* create and the delete of a storage stack and 24 for those of            *)
(* LambdaFunction, and no run waits twice for the same stack; a run sends  *)
(* at most twenty requests, and every run that has been started ends,      *)
(* whatever the provider does.                                             *)
(***************************************************************************)
\* the stack the script is waiting for, "" when it is not in a wait
WaitingFor ==
    IF pc = "cs3_wait_bootstrap" THEN CF_STACKNAME_BOOTSTRAP_S3
    ELSE IF pc = "cs3_wait_lambda_s3" THEN CF_STACKNAME_LAMBDA_S3
    ELSE IF pc = "cl_wait_lambda" THEN CF_STACKNAME_LAMBDA
    ELSE IF pc = "dcf_wait" THEN stack_name
    ELSE ""

\* the waits of the current run that are over
WaitsOver(s) ==
    {i \in 1..Len(issued) :
        issued[i].op \in {"wait_create", "wait_delete"} /\ issued[i].target = s}

\* attempts counts the polls made that asked for another; the poll that
\* ends the wait comes on top
C15_BoundedPolls ==
    /\ WaitingFor = "" => attempts = 0
    /\ WaitingFor # "" =>
          /\ attempts + 1 <= WaitMaxAttempts(WaitingFor)
          /\ WaitsOver(WaitingFor) = {}
    /\ \A s \in Stacks : Cardinality(WaitsOver(s)) <= 1
    /\ Len(issued) <= 20

C15_RunsTerminate ==
    /\ []C15_BoundedPolls
    /\ (pc \notin {"idle", "done"}) ~> RunEnded

\* runs have ended after waits that used up 24 and 12 polls
C15_Witness ==
    /\ RunEnded
    /\ \/ LastIssued = Request("wait_create", CF_STACKNAME_LAMBDA, "", "timeout")
       \/ LastIssued = Request("wait_delete", CF_STACKNAME_LAMBDA_S3, "", "timeout")

(***************************************************************************)
(* C16.  A wait that ends because the stack is in a terminal failure state *)
(* and a wait that ends because its polls are used up leave the caller     *)
(* with the same outcome: in both cases the wait is the last request of    *)
(* the run, and the result of the function that waited, the exception and  *)
(* the exit status of the script are the same, whichever of the two it     *)
(* was.                                                                    *)
(***************************************************************************)
\* the function whose code makes the wait of request r
WaitStage(r) ==
    IF r.op = "wait_delete" THEN "delete_cf_stack"
    ELSE IF r.target = CF_STACKNAME_LAMBDA THEN "create_lambda"
    ELSE "create_s3_bucket"

\* what the caller of a wait gets to see
WaitOutcome(r) == <<res[WaitStage(r)], exc, exitStatus>>

FailedWait(r) ==
    /\ r.op \in {"wait_create", "wait_delete"}
    /\ r.outcome \in {"terminal", "timeout"}

C16_SameFailureOutcome ==
    \A i \in 1..Len(issued) :
       FailedWait(issued[i]) =>
          /\ i = Len(issued)
          /\ RunEnded
          /\ WaitOutcome(issued[i]) = <<"raised", "TypeError", "traceback">>

\* a run has ended on a create wait that found the stack failed
C16_Witness ==
    /\ RunEnded
    /\ Len(issued) > 0
    /\ LastIssued.op = "wait_create"
    /\ LastIssued.outcome = "terminal"
    /\ WaitOutcome(LastIssued) = <<"raised", "TypeError", "traceback">>

(***************************************************************************)
(* C17.  A teardown-mode run made after a create-mode run, whatever that   *)
(* run left behind, in which no request is denied and the provider         *)
(* completes every deletion it accepted, has sent the three delete_stack   *)
(* requests when it ends, leaves every stack absent or deleted, and        *)
(* delete_cloudformation_stacks has returned 0.                            *)
(***************************************************************************)
\* some create-mode run has had a create request accepted: nothing else
\* takes a stack out of absent
CreateRunBefore == \E s \in Stacks : stack[s] # "absent"

\* no delete wait of the run has failed, no deletion is pending or failed
DeletionsCompleted ==
    /\ \A i \in 1..Len(issued) :
          issued[i].op = "wait_delete" => issued[i].outcome = "success"
    /\ \A s \in Stacks : stack[s] \notin {"deleting", "delete_failed"}

NothingDenied ==
    \A i \in 1..Len(issued) : issued[i].outcome # "AccessDenied"

C17_TeardownAfterAnyCreate ==
    (/\ mode = "delete"
     /\ RunEnded
     /\ CreateRunBefore
     /\ NothingDenied
     /\ DeletionsCompleted) =>
       /\ \A s \in Stacks :
             /\ \E i \in 1..Len(issued) :
                   issued[i].op = "delete_stack" /\ issued[i].target = s
             /\ stack[s] \in {"absent", "deleted"}
       /\ res["delete_cloudformation_stacks"] = "0"
       /\ exitStatus = "exit(0)"

(***************************************************************************)
(* C18.  When delete_cloudformation_stacks has returned 0, the delete wait *)
(* of each of the three stacks has succeeded in that run and each stack is *)
(* absent or deleted: none is created, deleting or delete_failed.          *)
(***************************************************************************)
C18_SuccessMeansAllDeleted ==
    (mode = "delete" /\ res["delete_cloudformation_stacks"] = "0") =>
       \A s \in Stacks :
          /\ Issued(Request("wait_delete", s, "", "success"))
          /\ stack[s] \in {"absent", "deleted"}

\* a teardown of the three stacks has returned 0
C18_Witness ==
    /\ mode = "delete"
    /\ res["delete_cloudformation_stacks"] = "0"
    /\ exitStatus = "exit(0)"
    /\ \A s \in Stacks :
          /\ Issued(Request("delete_stack", s, "", "accepted"))
          /\ stack[s] = "deleted"

====
